---- MODULE Spec2Model ----
(***************************************************************************)
(* uhd::dict<Key, Val> (host/include/uhd/types/dict.hpp): a dictionary     *)
(* kept as a std::list of (key, value) pairs in insertion order, with      *)
(* linear-scan lookup.  Keys are 1..NumKeys, values are 0..MaxVal and      *)
(* Val() is 0.                                                             *)
(***************************************************************************)
EXTENDS Integers, Sequences, FiniteSets, TLC

NumKeys == 2
MaxVal == 3
MaxInput == 3
MaxWrites == 4

DefaultVal == 0

Keys == 1..NumKeys
Vals == 0..MaxVal

\* typedef std::pair<Key, Val> pair_t
pair_t == [first : Keys, second : Vals]

make_pair(key, val) == [first |-> key, second |-> val]

\* _map : the std::list<pair_t> of the dictionary
\* last : the most recent call: its name, arguments, the list before it,
\*        and how it came back (returned value / reference / thrown object)
\* log  : the (key, value) pairs assigned through operator[] so far, kept
\*        only by the write-only specification SpecW
VARIABLES _map, last, log

vars == <<_map, last, log>>

\* ------------------------------------------------------------------------
\* std::list primitives used by the class

push_back(m, p) == Append(m, p)

push_front(m, p) == <<p>> \o m

erase(m, i) == SubSeq(m, 1, i - 1) \o SubSeq(m, i + 1, Len(m))

\* ------------------------------------------------------------------------
\* constructors

dict_new == <<>>

RECURSIVE dict_range_from(_, _, _)
dict_range_from(m, s, it) ==
    IF it > Len(s) THEN m
    ELSE dict_range_from(push_back(m, s[it]), s, it + 1)

dict_range(s) == dict_range_from(<<>>, s, 1)

\* ------------------------------------------------------------------------
\* read-only accessors

size(m) == Len(m)

RECURSIVE keys_from(_, _, _)
keys_from(m, i, acc) ==
    IF i > Len(m) THEN acc ELSE keys_from(m, i + 1, Append(acc, m[i].first))

keys(m) == keys_from(m, 1, <<>>)

RECURSIVE vals_from(_, _, _)
vals_from(m, i, acc) ==
    IF i > Len(m) THEN acc ELSE vals_from(m, i + 1, Append(acc, m[i].second))

vals(m) == vals_from(m, 1, <<>>)

\* The scan every keyed operation performs: the position of the first pair,
\* from position i on, whose key equals key; 0 when the loop runs off the end.
RECURSIVE scan(_, _, _)
scan(m, key, i) ==
    IF i > Len(m) THEN 0
    ELSE IF m[i].first = key THEN i
    ELSE scan(m, key, i + 1)

\* The same scan run from the back: the position of the last matching pair.
RECURSIVE scan_back(_, _, _)
scan_back(m, key, i) ==
    IF i < 1 THEN 0
    ELSE IF m[i].first = key THEN i
    ELSE scan_back(m, key, i - 1)

has_key(m, key) == scan(m, key, 1) # 0

\* ------------------------------------------------------------------------
\* the error object

NoExc == [kind |-> "none", what_text |-> "none", what_key |-> <<>>]

\* std::out_of_range(str(format("key \"%s\" not found in dict(%s, %s)") % key ...))
out_of_range(key) ==
    [kind |-> "out_of_range", what_text |-> "key not found in dict", what_key |-> <<key>>]

\* Copy-initialising a std::exception from an object of a derived class keeps
\* only the base sub-object: the dynamic type is std::exception.  Whether
\* what() still yields the derived object's message depends on the standard
\* library (the base class stores the message in some, not in others).
to_std_exception(e) ==
    { [kind |-> "exception", what_text |-> e.what_text, what_key |-> e.what_key],
      [kind |-> "exception", what_text |-> "std::exception", what_key |-> <<>>] }

\* std::exception key_not_found_in_dict(const Key &key) const: the set of
\* objects the caller can receive.
key_not_found_in_dict(key) == to_std_exception(out_of_range(key))

Returned(m, v) == [map |-> m, status |-> "ok", ret |-> <<v>>, exc |-> NoExc]

Thrown(m, e) == [map |-> m, status |-> "throw", ret |-> <<>>, exc |-> e]

\* ------------------------------------------------------------------------
\* const Val &operator[](const Key &key) const

operator_index_const_last_match(m, key) ==
    LET i == scan_back(m, key, Len(m))
    IN IF i # 0 THEN { Returned(m, m[i].second) }
       ELSE { Thrown(m, e) : e \in key_not_found_in_dict(key) }

operator_index_const(m, key) ==
    LET i == scan(m, key, 1)
    IN IF i # 0 THEN { Returned(m, m[i].second) }
       ELSE { Thrown(m, e) : e \in key_not_found_in_dict(key) }

\* ------------------------------------------------------------------------
\* Val &operator[](const Key &key): the returned reference is the position
\* of the pair whose second member it designates.

operator_index_push_front(m, key) ==
    LET i == scan(m, key, 1)
    IN IF i # 0 THEN { Returned(m, i) }
       ELSE { Returned(push_front(m, make_pair(key, DefaultVal)), 1) }

operator_index_always_append(m, key) ==
    { Returned(push_back(m, make_pair(key, DefaultVal)), Len(m) + 1) }

operator_index_last_match(m, key) ==
    LET i == scan_back(m, key, Len(m))
    IN IF i # 0 THEN { Returned(m, i) }
       ELSE { Returned(push_back(m, make_pair(key, DefaultVal)), Len(m) + 1) }

operator_index_throws(m, key) ==
    LET i == scan(m, key, 1)
    IN IF i # 0 THEN { Returned(m, i) }
       ELSE { Thrown(m, e) : e \in key_not_found_in_dict(key) }

operator_index(m, key) ==
    LET i == scan(m, key, 1)
    IN IF i # 0 THEN { Returned(m, i) }
       ELSE { Returned(push_back(m, make_pair(key, DefaultVal)), Len(m) + 1) }

\* d[key] = val: the assignment through the reference operator[] returned
assign(o, val) ==
    IF o.status = "ok"
    THEN [o EXCEPT !.map = [o.map EXCEPT ![o.ret[1]].second = val]]
    ELSE o

\* ------------------------------------------------------------------------
\* Val pop(const Key &key)

pop_last_match(m, key) ==
    LET i == scan_back(m, key, Len(m))
    IN IF i # 0 THEN { Returned(erase(m, i), m[i].second) }
       ELSE { Thrown(m, e) : e \in key_not_found_in_dict(key) }

pop_erases_before_throw(m, key) ==
    LET i == scan(m, key, 1)
    IN IF i # 0 THEN { Returned(erase(m, i), m[i].second) }
       ELSE { Thrown(erase(m, Len(m)), e) : e \in key_not_found_in_dict(key) }

pop(m, key) ==
    LET i == scan(m, key, 1)
    IN IF i # 0 THEN { Returned(erase(m, i), m[i].second) }
       ELSE { Thrown(m, e) : e \in key_not_found_in_dict(key) }

\* ------------------------------------------------------------------------
\* the state machine

BoundedSeq(S, n) == UNION { [1..l -> S] : l \in 0..n }

Call(op, args, o) ==
    [op |-> op, args |-> args, pre |-> _map,
     status |-> o.status, ret |-> o.ret, exc |-> o.exc]

Init ==
    /\ \/ _map = dict_new
       \/ \E s \in BoundedSeq(pair_t, MaxInput) : _map = dict_range(s)
    /\ last = [op |-> "construct", args |-> <<>>, pre |-> <<>>,
               status |-> "ok", ret |-> <<>>, exc |-> NoExc]
    /\ log = <<>>

Size ==
    /\ last' = Call("size", <<>>, Returned(_map, size(_map)))
    /\ UNCHANGED <<_map, log>>

KeysOp ==
    /\ last' = Call("keys", <<>>, Returned(_map, keys(_map)))
    /\ UNCHANGED <<_map, log>>

ValsOp ==
    /\ last' = Call("vals", <<>>, Returned(_map, vals(_map)))
    /\ UNCHANGED <<_map, log>>

HasKey(key) ==
    /\ last' = Call("has_key", <<key>>, Returned(_map, has_key(_map, key)))
    /\ UNCHANGED <<_map, log>>

Get(key) ==
    /\ \E o \in operator_index_const(_map, key) :
          /\ last' = Call("get", <<key>>, o)
          /\ _map' = o.map
    /\ UNCHANGED log

GetOrInsertDefault(key) ==
    /\ \E o \in operator_index(_map, key) :
          /\ last' = Call("operator_index", <<key>>, o)
          /\ _map' = o.map
    /\ UNCHANGED log

IndexedWrite(key, val) ==
    \E o \in operator_index(_map, key) :
       /\ last' = Call("write", <<key, val>>, assign(o, val))
       /\ _map' = assign(o, val).map

Write(key, val) ==
    /\ IndexedWrite(key, val)
    /\ UNCHANGED log

Pop(key) ==
    /\ \E o \in pop(_map, key) :
          /\ last' = Call("pop", <<key>>, o)
          /\ _map' = o.map
    /\ UNCHANGED log

Next ==
    \/ Size
    \/ KeysOp
    \/ ValsOp
    \/ \E key \in Keys : HasKey(key)
    \/ \E key \in Keys : Get(key)
    \/ \E key \in Keys : GetOrInsertDefault(key)
    \/ \E key \in Keys, val \in Vals : Write(key, val)
    \/ \E key \in Keys : Pop(key)

Spec == Init /\ [][Next]_vars

\* A dictionary built only by assignments through operator[], from empty.
InitW ==
    /\ _map = dict_new
    /\ last = [op |-> "construct", args |-> <<>>, pre |-> <<>>,
               status |-> "ok", ret |-> <<>>, exc |-> NoExc]
    /\ log = <<>>

LoggedWrite(key, val) ==
    /\ Len(log) < MaxWrites
    /\ IndexedWrite(key, val)
    /\ log' = Append(log, <<key, val>>)

NextW == \E key \in Keys, val \in Vals : LoggedWrite(key, val)

SpecW == InitW /\ [][NextW]_vars

\* ------------------------------------------------------------------------
\* properties

\* The position of the first pair of m with the given key, stated without
\* the scan: no earlier pair has the key.
IsFirstMatch(m, key, i) ==
    /\ i \in 1..Len(m)
    /\ m[i].first = key
    /\ \A j \in 1..(i - 1) : m[j].first # key

Present(m, key) == \E i \in 1..Len(m) : m[i].first = key

Without(s, i) == [j \in 1..(Len(s) - 1) |-> IF j < i THEN s[j] ELSE s[j + 1]]

ReadOnlyOps == {"size", "keys", "vals", "has_key", "get"}

\* C1: in every reachable state at most one stored pair exists for any key.
C1_UniqueKeys ==
    \A i, j \in 1..Len(_map) : _map[i].first = _map[j].first => i = j

\* C2: when key k is present with get(k) = v, pop(k) returns v and right
\* after it has_key(k) is false and get(k) throws.
C2_PopRemovesKey ==
    (last.op = "pop" /\ Present(last.pre, last.args[1])) =>
        /\ last.status = "ok"
        /\ \A o \in operator_index_const(last.pre, last.args[1]) : last.ret = o.ret
        /\ ~has_key(_map, last.args[1])
        /\ \A o \in operator_index_const(_map, last.args[1]) : o.status = "throw"

\* C3: the object a failed get(k) or pop(k) throws is an out_of_range and
\* its message carries the key k.
C3_ErrorKindAndKey ==
    (last.op \in {"get", "pop"} /\ last.status = "throw") =>
        /\ last.exc.kind = "out_of_range"
        /\ last.exc.what_key = <<last.args[1]>>

\* C4: get(k) and pop(k) throw exactly when no stored pair has key k, and
\* otherwise return the value of the first pair, in list order, with key k.
C4_FailsIffAbsent ==
    last.op \in {"get", "pop"} =>
        /\ last.status \in {"ok", "throw"}
        /\ last.status = "throw" <=> ~Present(last.pre, last.args[1])
        /\ last.status = "throw" => last.exc \in key_not_found_in_dict(last.args[1])
        /\ last.status = "ok" =>
              \E i \in 1..Len(last.pre) :
                 /\ IsFirstMatch(last.pre, last.args[1], i)
                 /\ last.ret = <<last.pre[i].second>>

C4_Witness ==
    /\ last.op = "pop"
    /\ last.status = "ok"
    /\ \E i, j \in 1..Len(last.pre) :
          /\ i < j
          /\ last.pre[i].first = last.args[1]
          /\ last.pre[j].first = last.args[1]
          /\ last.pre[i].second # last.pre[j].second

\* The keys of a sequence of writes in the order of their first appearance.
RECURSIVE FirstAppearances(_)
FirstAppearances(w) ==
    IF w = <<>> THEN <<>>
    ELSE LET front == FirstAppearances(SubSeq(w, 1, Len(w) - 1))
             k == w[Len(w)][1]
         IN IF \E i \in 1..Len(front) : front[i] = k THEN front
            ELSE Append(front, k)

\* C5: from the empty dictionary, after any sequence of assignments through
\* operator[], keys() is the list of distinct keys in order of first
\* appearance: an update neither moves a key nor adds an entry.
C5_KeysInFirstInsertionOrder == keys(_map) = FirstAppearances(log)

C5_Witness ==
    /\ Len(log) = 4
    /\ log[1][1] = 2
    /\ log[2][1] = 1
    /\ log[3][1] = 2
    /\ log[3][2] # log[1][2]
    /\ log[4][1] = 1
    /\ keys(_map) = <<2, 1>>

\* C6: right after d[k] = v, on any dictionary (also one constructed with
\* duplicate keys), get(k) returns v and has_key(k) is true.
C6_WriteThenGet ==
    last.op = "write" =>
        /\ last.status = "ok"
        /\ has_key(_map, last.args[1])
        /\ \A o \in operator_index_const(_map, last.args[1]) :
              o.status = "ok" /\ o.ret = <<last.args[2]>>

C6_Witness ==
    /\ last.op = "write"
    /\ \E i, j \in 1..Len(last.pre) :
          /\ i < j
          /\ last.pre[i].first = last.args[1]
          /\ last.pre[j].first = last.args[1]
    /\ \A i \in 1..Len(last.pre) : last.pre[i].second # last.args[2]

\* C7: in a dictionary built only by assignments through operator[], get(k)
\* returns the value most recently assigned to k and size() is the number of
\* distinct keys assigned.
C7_LastWriteWins ==
    /\ size(_map) = Cardinality({ log[i][1] : i \in 1..Len(log) })
    /\ \A i \in 1..Len(log) :
          (\A j \in (i + 1)..Len(log) : log[j][1] # log[i][1]) =>
              \A o \in operator_index_const(_map, log[i][1]) :
                 o.status = "ok" /\ o.ret = <<log[i][2]>>

C7_Witness ==
    /\ log = << <<1, 1>>, <<2, 2>>, <<1, 3>> >>
    /\ size(_map) = 2
    /\ operator_index_const(_map, 1) = { Returned(_map, 3) }
    /\ operator_index_const(_map, 2) = { Returned(_map, 2) }

\* C8: mutable operator[] never throws; for an absent key it appends exactly
\* the pair (k, Val()) at the end, leaving the earlier pairs alone; for a
\* present key it leaves the list unchanged and refers to the first pair
\* with that key.
C8_GetOrInsertDefault ==
    last.op = "operator_index" =>
        /\ last.status = "ok"
        /\ ~Present(last.pre, last.args[1]) =>
              /\ Len(_map) = Len(last.pre) + 1
              /\ SubSeq(_map, 1, Len(last.pre)) = last.pre
              /\ _map[Len(_map)] = [first |-> last.args[1], second |-> DefaultVal]
              /\ last.ret = <<Len(_map)>>
        /\ Present(last.pre, last.args[1]) =>
              /\ _map = last.pre
              /\ IsFirstMatch(last.pre, last.args[1], last.ret[1])

C8_Witness ==
    /\ last.op = "operator_index"
    /\ last.pre # <<>>
    /\ ~Present(last.pre, last.args[1])
    /\ Len(_map) = Len(last.pre) + 1

\* C9: a successful pop(k) erases exactly the first pair with key k: size()
\* drops by one and keys() and vals() are the former lists without that one
\* element.
C9_PopErasesFirstMatchOnly ==
    (last.op = "pop" /\ last.status = "ok") =>
        \E i \in 1..Len(last.pre) :
           /\ IsFirstMatch(last.pre, last.args[1], i)
           /\ _map = Without(last.pre, i)
           /\ size(_map) = size(last.pre) - 1
           /\ keys(_map) = Without(keys(last.pre), i)
           /\ vals(_map) = Without(vals(last.pre), i)

C9_Witness ==
    /\ last.op = "pop"
    /\ last.status = "ok"
    /\ Len(last.pre) >= 3
    /\ \E i, j \in 1..Len(last.pre) :
          /\ 1 < i
          /\ i < j
          /\ last.pre[i].first = last.args[1]
          /\ last.pre[j].first = last.args[1]

\* C10: a get(k) or pop(k) that throws leaves the list as it was, and size,
\* keys, vals, has_key and const operator[] never change the list.
C10_FailureAndReadsKeepList ==
    /\ last.status = "throw" => _map = last.pre
    /\ last.op \in ReadOnlyOps => _map = last.pre

C10_Witness ==
    /\ last.op = "pop"
    /\ last.status = "throw"
    /\ Len(last.pre) >= 2

====
